---- MODULE Spec2Model ----
(***************************************************************************)
(* Model of src/petsapp/index.ts: the shorthand relative-date grammar      *)
(* ("now-4d/h-4h+13m/h").  parse evaluates an expression against the       *)
(* system clock, stringify turns a Date into an expression.                *)
(*                                                                         *)
(* Representation.  A Date's time value is an integer number of           *)
(* milliseconds since 1970-01-01T00:00:00.000Z; for the year 2020 that is  *)
(* about 1.6e12, beyond the integers TLC computes with.  A time value t is *)
(* therefore kept as the pair                                              *)
(*      [day |-> t \div msPerDay, ms |-> t % msPerDay]                     *)
(* (ECMAScript's Day(t) and TimeWithinDay(t)), and every sum, difference   *)
(* and quotient the code computes on time values is computed exactly on    *)
(* these pairs.  A string is a sequence of one-character strings.          *)
(***************************************************************************)
EXTENDS Integers, Sequences, FiniteSets, TLC

VARIABLES now, strCall, parseCall

vars == <<now, strCall, parseCall>>

(***************************************************************************)
(* Time constants (stringify, and ECMAScript's msPerDay etc.)              *)
(***************************************************************************)
msInSecond == 1000
msInMinute == msInSecond * 60
msInHour == msInMinute * 60
msInDay == msInHour * 24

UnitCodes == {"d", "M", "y", "h", "m", "s", "w"}
Digits == {"0", "1", "2", "3", "4", "5", "6", "7", "8", "9"}

(***************************************************************************)
(* The Date object: calendar fields of a time value, in UTC.               *)
(***************************************************************************)
\* MakeDay(year, month, 1): the day number of the first of a month (0-based
\* month in 0..11), proleptic Gregorian calendar.
DayFromYearMonth(y, m) ==
    LET m1 == m + 1
        yy == IF m1 <= 2 THEN y - 1 ELSE y
        era == yy \div 400
        yoe == yy - era * 400
        mp == IF m1 > 2 THEN m1 - 3 ELSE m1 + 9
        doy == (153 * mp + 2) \div 5
        doe == yoe * 365 + yoe \div 4 - yoe \div 100 + doy
    IN era * 146097 + doe - 719468

\* MakeDay(year, month, date): month and date may lie outside their ranges and
\* carry into the year and the month.
MakeDay(year, month, date) ==
    DayFromYearMonth(year + month \div 12, month % 12) + date - 1

\* YearFromTime, MonthFromTime, DateFromTime of a day number.
Civil(day) ==
    LET z == day + 719468
        era == z \div 146097
        doe == z - era * 146097
        yoe == (doe - doe \div 1460 + doe \div 36524 - doe \div 146096) \div 365
        doy == doe - (365 * yoe + yoe \div 4 - yoe \div 100)
        mp == (5 * doy + 2) \div 153
        d == doy - (153 * mp + 2) \div 5 + 1
        m1 == IF mp < 10 THEN mp + 3 ELSE mp - 9
    IN [year |-> yoe + era * 400 + (IF m1 <= 2 THEN 1 ELSE 0),
        month |-> m1 - 1,
        date |-> d]

getUTCFullYear(t) == Civil(t.day).year
getUTCMonth(t) == Civil(t.day).month
getUTCDate(t) == Civil(t.day).date
\* 1970-01-01 was a Thursday (4); Sunday is 0.
getUTCDay(t) == (t.day + 4) % 7
getUTCHours(t) == t.ms \div msInHour
getUTCMinutes(t) == (t.ms % msInHour) \div msInMinute
getUTCSeconds(t) == (t.ms % msInMinute) \div msInSecond
getUTCMilliseconds(t) == t.ms % msInSecond

\* MakeDate(day, MakeTime(hour, min, sec, ms)): the fields may lie outside their
\* ranges and carry.  The whole days of each field are carried first, so that
\* no intermediate exceeds three days of milliseconds.
MakeDate(day, hour, min, sec, ms) ==
    LET t == (hour % 24) * msInHour + (min % 1440) * msInMinute
             + (sec % 86400) * msInSecond + ms
    IN [day |-> day + hour \div 24 + min \div 1440 + sec \div 86400 + t \div msInDay,
        ms |-> t % msInDay]

setUTCFullYear(t, year) ==
    [day |-> MakeDay(year, getUTCMonth(t), getUTCDate(t)), ms |-> t.ms]
setUTCMonth(t, month) ==
    [day |-> MakeDay(getUTCFullYear(t), month, getUTCDate(t)), ms |-> t.ms]
setUTCMonthDate(t, month, date) ==
    [day |-> MakeDay(getUTCFullYear(t), month, date), ms |-> t.ms]
setUTCDate(t, date) ==
    [day |-> MakeDay(getUTCFullYear(t), getUTCMonth(t), date), ms |-> t.ms]
setUTCHours(t, hour) ==
    MakeDate(t.day, hour, getUTCMinutes(t), getUTCSeconds(t), getUTCMilliseconds(t))
setUTCHoursAll(t, hour, min, sec, ms) ==
    MakeDate(t.day, hour, min, sec, ms)
setUTCMinutes(t, min) ==
    MakeDate(t.day, getUTCHours(t), min, getUTCSeconds(t), getUTCMilliseconds(t))
setUTCMinutesAll(t, min, sec, ms) ==
    MakeDate(t.day, getUTCHours(t), min, sec, ms)
setUTCSeconds(t, sec) ==
    MakeDate(t.day, getUTCHours(t), getUTCMinutes(t), sec, getUTCMilliseconds(t))
setUTCSecondsAll(t, sec, ms) ==
    MakeDate(t.day, getUTCHours(t), getUTCMinutes(t), sec, ms)
setUTCMilliseconds(t, ms) ==
    MakeDate(t.day, getUTCHours(t), getUTCMinutes(t), getUTCSeconds(t), ms)

\* Date.UTC(year, month, date, hours, minutes, seconds, ms)
DateUTC(year, month, date, hour, min, sec, ms) ==
    MakeDate(MakeDay(year, month, date), hour, min, sec, ms)

(***************************************************************************)
(* applyAdjustment and applyRounding                                       *)
(***************************************************************************)
applyAdjustment(date, sign, value, unit) ==
    LET multiplier == IF sign = "+" THEN 1 ELSE -1
    IN CASE unit = "d" -> setUTCDate(date, getUTCDate(date) + value * multiplier)
         [] unit = "M" -> setUTCMonth(date, getUTCMonth(date) + value * multiplier)
         [] unit = "y" -> setUTCFullYear(date, getUTCFullYear(date) + value * multiplier)
         [] unit = "h" -> setUTCHours(date, getUTCHours(date) + value * multiplier)
         [] unit = "m" -> setUTCMinutes(date, getUTCMinutes(date) + value * multiplier)
         [] unit = "s" -> setUTCSeconds(date, getUTCSeconds(date) + value * multiplier)
         [] unit = "w" -> setUTCDate(date, getUTCDate(date) + value * 7 * multiplier)
         [] OTHER -> date

\* A month rounding that sets the day of the month to 0, the last day of the
\* month before.
applyRoundingMonthDayZero(date, unit) ==
    CASE unit = "d" -> setUTCHoursAll(date, 0, 0, 0, 0)
      [] unit = "M" -> setUTCHoursAll(setUTCDate(date, 0), 0, 0, 0, 0)
      [] unit = "y" -> setUTCHoursAll(setUTCMonthDate(date, 0, 1), 0, 0, 0, 0)
      [] unit = "h" -> setUTCMinutesAll(date, 0, 0, 0)
      [] unit = "m" -> setUTCSecondsAll(date, 0, 0)
      [] unit = "s" -> setUTCMilliseconds(date, 0)
      [] unit = "w" -> setUTCHoursAll(setUTCDate(date, getUTCDate(date) - getUTCDay(date)),
                                      0, 0, 0, 0)

\* The default branch throws; parse's regular expression lets only the seven
\* unit codes through, so no call reaches it.
applyRounding(date, unit) ==
    CASE unit = "d" -> setUTCHoursAll(date, 0, 0, 0, 0)
      [] unit = "M" -> setUTCHoursAll(setUTCDate(date, 1), 0, 0, 0, 0)
      [] unit = "y" -> setUTCHoursAll(setUTCMonthDate(date, 0, 1), 0, 0, 0, 0)
      [] unit = "h" -> setUTCMinutesAll(date, 0, 0, 0)
      [] unit = "m" -> setUTCSecondsAll(date, 0, 0)
      [] unit = "s" -> setUTCMilliseconds(date, 0)
      [] unit = "w" -> setUTCHoursAll(setUTCDate(date, getUTCDate(date) - getUTCDay(date)),
                                      0, 0, 0, 0)

(***************************************************************************)
(* Strings                                                                 *)
(***************************************************************************)
NowLiteral == <<"n", "o", "w">>

\* String.prototype.startsWith
startsWith(s, prefix) ==
    /\ Len(s) >= Len(prefix)
    /\ SubSeq(s, 1, Len(prefix)) = prefix

\* String.prototype.slice(start) with a 0-based start inside the string.
sliceFrom(s, start) == SubSeq(s, start + 1, Len(s))

DigitValue(c) ==
    CASE c = "0" -> 0 [] c = "1" -> 1 [] c = "2" -> 2 [] c = "3" -> 3 [] c = "4" -> 4
      [] c = "5" -> 5 [] c = "6" -> 6 [] c = "7" -> 7 [] c = "8" -> 8 [] c = "9" -> 9

DigitChar(n) ==
    CASE n = 0 -> "0" [] n = 1 -> "1" [] n = 2 -> "2" [] n = 3 -> "3" [] n = 4 -> "4"
      [] n = 5 -> "5" [] n = 6 -> "6" [] n = 7 -> "7" [] n = 8 -> "8" [] n = 9 -> "9"

\* The index after the longest run of digits of s that starts at index i.
RECURSIVE DigitRunEnd(_, _)
DigitRunEnd(s, i) ==
    IF i <= Len(s) /\ s[i] \in Digits THEN DigitRunEnd(s, i + 1) ELSE i

\* parseInt(s) for a string of the shape the token slice has: the value of the
\* leading decimal digits, or NaN when the string does not start with a digit.
RECURSIVE DecimalValue(_, _)
DecimalValue(s, n) ==
    IF n = 0 THEN 0 ELSE DecimalValue(s, n - 1) * 10 + DigitValue(s[n])

parseInt(s) ==
    LET e == DigitRunEnd(s, 1)
    IN IF e = 1 THEN [nan |-> TRUE, value |-> 0]
       ELSE [nan |-> FALSE, value |-> DecimalValue(s, e - 1)]

\* Number to string, as a template literal formats an integer: decimal digits,
\* a leading '-' for a negative number.
RECURSIVE DecimalDigits(_)
DecimalDigits(n) ==
    IF n < 10 THEN <<DigitChar(n)>>
    ELSE DecimalDigits(n \div 10) \o <<DigitChar(n % 10)>>

NumberToString(n) ==
    IF n < 0 THEN <<"-">> \o DecimalDigits(-n) ELSE DecimalDigits(n)

(***************************************************************************)
(* parse                                                                   *)
(***************************************************************************)
\* One attempt of operationRegex, /([+-]?\d+[dMyhmsw]|\/[dMyhmsw])/, at index
\* i of s: the index of the match's last character, or 0 when there is no match
\* at i.  With the sign taken the digits must follow it; without it the match
\* must start with a digit, so giving the sign back never helps.
MatchAt(s, i) ==
    LET j == IF s[i] \in {"+", "-"} THEN i + 1 ELSE i
        k == DigitRunEnd(s, j)
    IN IF k > j /\ k <= Len(s) /\ s[k] \in UnitCodes THEN k
       ELSE IF s[i] = "/" /\ i + 1 <= Len(s) /\ s[i + 1] \in UnitCodes THEN i + 1
       ELSE 0

\* operations.match(operationRegex) || []: the matches from left to right, each
\* search starting after the previous match; characters in no match are skipped.
RECURSIVE MatchAll(_, _)
MatchAll(s, i) ==
    IF i > Len(s) THEN <<>>
    ELSE LET e == MatchAt(s, i)
         IN IF e = 0 THEN MatchAll(s, i + 1)
            ELSE <<SubSeq(s, i, e)>> \o MatchAll(s, e + 1)

\* parseInt(operation.slice(1, -1)) || 1: NaN and 0 are both falsy.
OperationValue(operation) ==
    LET n == parseInt(SubSeq(operation, 2, Len(operation) - 1))
    IN IF n.nan \/ n.value = 0 THEN 1 ELSE n.value

InvalidSignMessage(operation) ==
    <<"I", "n", "v", "a", "l", "i", "d", " ", "s", "i", "g", "n", " ", "i", "n", " ",
      "o", "p", "e", "r", "a", "t", "i", "o", "n", " ", "'">> \o operation \o <<"'">>

MustStartWithNowMessage ==
    <<"I", "n", "v", "a", "l", "i", "d", " ", "d", "a", "t", "e", " ", "s", "t", "r",
      "i", "n", "g", ":", " ", "M", "u", "s", "t", " ", "s", "t", "a", "r", "t", " ",
      "w", "i", "t", "h", " ", "'", "n", "o", "w", "'", ".">>

Returned(v) == [kind |-> "return", value |-> v]
Thrown(msg) == [kind |-> "throw", message |-> msg]

\* A callback that lets any leading character through.
ProcessOperationUnvalidated(baseDate, operation) ==
    LET sign == operation[1]
        value == OperationValue(operation)
        unit == operation[Len(operation)]
    IN IF sign = "/" THEN Returned(applyRounding(baseDate, unit))
       ELSE IF sign \in {"+", "-"} THEN Returned(applyAdjustment(baseDate, sign, value, unit))
       ELSE Returned(baseDate)

\* The body of the forEach callback for one operation, on the running baseDate.
ProcessOperation(baseDate, operation) ==
    LET sign == operation[1]
        value == OperationValue(operation)
        unit == operation[Len(operation)]
    IN IF sign \notin {"+", "-", "/"} THEN Thrown(InvalidSignMessage(operation))
       ELSE IF sign = "/" THEN Returned(applyRounding(baseDate, unit))
       ELSE Returned(applyAdjustment(baseDate, sign, value, unit))

\* A loop that takes the operations from the last to the first.
RECURSIVE ForEachOperationReversed(_, _, _)
ForEachOperationReversed(baseDate, operationsArray, i) ==
    IF i > Len(operationsArray) THEN Returned(baseDate)
    ELSE LET r == ProcessOperation(baseDate,
                                   operationsArray[Len(operationsArray) - i + 1])
         IN IF r.kind = "throw" THEN r
            ELSE ForEachOperationReversed(r.value, operationsArray, i + 1)

\* A loop in which every operation acts on the date as it was read from the
\* clock, so that only the last one shows.
RECURSIVE ForEachOperationOnClock(_, _, _)
ForEachOperationOnClock(baseDate, operationsArray, i) ==
    IF i > Len(operationsArray) THEN Returned(baseDate)
    ELSE LET r == ProcessOperation(baseDate, operationsArray[i])
         IN IF r.kind = "throw" \/ i = Len(operationsArray) THEN r
            ELSE ForEachOperationOnClock(baseDate, operationsArray, i + 1)

\* operationsArray.forEach from operation i on: each operation acts on the
\* date the previous ones left; a throw ends the loop and the call.
RECURSIVE ForEachOperation(_, _, _)
ForEachOperation(baseDate, operationsArray, i) ==
    IF i > Len(operationsArray) THEN Returned(baseDate)
    ELSE LET r == ProcessOperation(baseDate, operationsArray[i])
         IN IF r.kind = "throw" THEN r
            ELSE ForEachOperation(r.value, operationsArray, i + 1)

\* parse(datestring) with the clock reading `clock` (new Date()).
parse(clock, datestring) ==
    IF ~startsWith(datestring, NowLiteral) THEN Thrown(MustStartWithNowMessage)
    ELSE ForEachOperation(clock, MatchAll(sliceFrom(datestring, 3), 1), 1)

(***************************************************************************)
(* stringify                                                               *)
(***************************************************************************)
\* A number of milliseconds as a day/ms pair (floor division, so a negative
\* number has a negative day and ms in 0..msInDay-1).
Millis(n) == [day |-> n \div msInDay, ms |-> n % msInDay]
WholeDays(n) == [day |-> n, ms |-> 0]

msInWeek == WholeDays(7)
msInMonth == WholeDays(30)
msInYear == WholeDays(365)

\* a.getTime() - b.getTime()
TimeMinus(a, b) ==
    LET ms == a.ms - b.ms
    IN [day |-> a.day - b.day + ms \div msInDay, ms |-> ms % msInDay]

IsNegative(x) == x.day < 0

\* Math.abs(x)
MathAbs(x) ==
    IF IsNegative(x) THEN TimeMinus(WholeDays(0), x) ELSE x

\* Math.floor(x / duration) for x >= 0 and a duration that is a whole number
\* of days or divides a day.
FloorQuotient(x, duration) ==
    IF duration.day > 0 THEN x.day \div duration.day
    ELSE x.day * (msInDay \div duration.ms) + x.ms \div duration.ms

\* x % duration, same x and duration.
Remainder(x, duration) ==
    IF duration.day > 0 THEN [day |-> x.day % duration.day, ms |-> x.ms]
    ELSE [day |-> 0, ms |-> x.ms % duration.ms]

\* JavaScript's a % b on integers, b > 0: the result has the sign of a.
JsRemainder(a, b) == IF a < 0 THEN -((-a) % b) ELSE a % b

Abs(n) == IF n < 0 THEN -n ELSE n

\* new Date(datetime.toISOString().split('T')[0]): the date part is written as
\* YYYY-MM-DD and read back as midnight UTC of that calendar date.
convertToDateOnly(datetime) ==
    LET c == Civil(datetime.day)
    IN DateUTC(c.year, c.month, c.date, 0, 0, 0, 0)

\* A sign that is written for a negative difference only.
DifferenceSignMinusOnly(timeDifference) ==
    IF IsNegative(timeDifference) THEN <<"-">> ELSE <<>>

\* sign = timeDifference >= 0 ? '+' : '-'
DifferenceSign(timeDifference) ==
    IF IsNegative(timeDifference) THEN <<"-">> ELSE <<"+">>

TimeIsZero(date) ==
    /\ getUTCHours(date) = 0
    /\ getUTCMinutes(date) = 0
    /\ getUTCSeconds(date) = 0
    /\ getUTCMilliseconds(date) = 0

YearPrecision(date) ==
    getUTCMonth(date) = 0 /\ getUTCDate(date) = 1 /\ TimeIsZero(date)
MonthPrecision(date) ==
    getUTCDate(date) = 1 /\ TimeIsZero(date)
WeekPrecision(date) ==
    getUTCDay(date) = 0 /\ TimeIsZero(date)
DayPrecision(date) ==
    TimeIsZero(date)
HourPrecision(date) ==
    getUTCMinutes(date) = 0 /\ getUTCSeconds(date) = 0 /\ getUTCMilliseconds(date) = 0
MinutePrecision(date) ==
    getUTCSeconds(date) = 0 /\ getUTCMilliseconds(date) = 0

\* A year branch that leaves the rounding out, as the month branch does.
YearBranchUnrounded(date, nowUTC, sign) ==
    LET years == getUTCFullYear(date) - getUTCFullYear(nowUTC)
    IN IF years # 0
       THEN NowLiteral \o sign \o NumberToString(Abs(years)) \o <<"y">>
       ELSE NowLiteral \o <<"/", "y">>

YearBranch(date, nowUTC, sign) ==
    LET years == getUTCFullYear(date) - getUTCFullYear(nowUTC)
    IN IF years # 0
       THEN NowLiteral \o sign \o NumberToString(Abs(years)) \o <<"y", "/", "y">>
       ELSE NowLiteral \o <<"/", "y">>

MonthBranch(date, nowUTC, sign) ==
    LET months == (getUTCFullYear(date) - getUTCFullYear(nowUTC)) * 12
                  + getUTCMonth(date) - getUTCMonth(nowUTC)
    IN IF months # 0
       THEN NowLiteral \o sign \o NumberToString(Abs(months)) \o <<"M">>
       ELSE NowLiteral \o <<"/", "M">>

WeekBranch(date, nowUTC, sign) ==
    LET timeDifferences == TimeMinus(date, convertToDateOnly(nowUTC))
        totalDaysDiffs == FloorQuotient(timeDifferences, WholeDays(1))
        weeks == totalDaysDiffs \div 7
        daysExtra == JsRemainder(totalDaysDiffs, 7)
    IN IF weeks # 0 \/ daysExtra # 0
       THEN NowLiteral \o sign \o NumberToString(weeks * 7 + daysExtra)
            \o <<"d", "/", "w">>
       ELSE NowLiteral \o <<"/", "w">>

DayBranch(timeDifference, sign) ==
    LET days == FloorQuotient(timeDifference, WholeDays(1))
    IN IF days # 0 THEN NowLiteral \o sign \o NumberToString(days) \o <<"d">>
       ELSE NowLiteral \o <<"/", "d">>

HourBranch(timeDifference, sign) ==
    LET hours == FloorQuotient(timeDifference, Millis(msInHour))
    IN IF hours # 0 THEN NowLiteral \o sign \o NumberToString(hours) \o <<"h">>
       ELSE NowLiteral \o <<"/", "h">>

MinuteBranch(timeDifference, sign) ==
    LET minutes == FloorQuotient(timeDifference, Millis(msInMinute))
    IN IF minutes # 0 THEN NowLiteral \o sign \o NumberToString(minutes) \o <<"m">>
       ELSE NowLiteral \o <<"/", "m">>

units ==
    << [label |-> "y", duration |-> msInYear],
       [label |-> "M", duration |-> msInMonth],
       [label |-> "w", duration |-> msInWeek],
       [label |-> "d", duration |-> WholeDays(1)],
       [label |-> "h", duration |-> Millis(msInHour)],
       [label |-> "m", duration |-> Millis(msInMinute)],
       [label |-> "s", duration |-> Millis(msInSecond)] >>

\* A loop that divides the whole difference by every unit.
RECURSIVE ForEachUnitUnreduced(_, _, _, _)
ForEachUnitUnreduced(timeDifference, result, sign, i) ==
    IF i > Len(units) THEN result
    ELSE LET unit == units[i]
             value == FloorQuotient(timeDifference, unit.duration)
         IN ForEachUnitUnreduced(timeDifference,
                        IF value > 0
                        THEN result \o sign \o NumberToString(value) \o <<unit.label>>
                        ELSE result,
                        sign, i + 1)

\* units.forEach from unit i on, with the running timeDifference and result.
RECURSIVE ForEachUnit(_, _, _, _)
ForEachUnit(timeDifference, result, sign, i) ==
    IF i > Len(units) THEN result
    ELSE LET unit == units[i]
             value == FloorQuotient(timeDifference, unit.duration)
             rest == Remainder(timeDifference, unit.duration)
         IN ForEachUnit(rest,
                        IF value > 0
                        THEN result \o sign \o NumberToString(value) \o <<unit.label>>
                        ELSE result,
                        sign, i + 1)

\* stringify(date) with the clock reading `clock` (Date.now()).
stringify(clock, date) ==
    LET nowUTC == clock
        signed == TimeMinus(date, nowUTC)
        sign == DifferenceSign(signed)
        timeDifference == MathAbs(signed)
    IN IF YearPrecision(date) THEN YearBranch(date, nowUTC, sign)
       ELSE IF MonthPrecision(date) THEN MonthBranch(date, nowUTC, sign)
       ELSE IF WeekPrecision(date) THEN WeekBranch(date, nowUTC, sign)
       ELSE IF DayPrecision(date) THEN DayBranch(timeDifference, sign)
       ELSE IF HourPrecision(date) THEN HourBranch(timeDifference, sign)
       ELSE IF MinutePrecision(date) THEN MinuteBranch(timeDifference, sign)
       ELSE ForEachUnit(timeDifference, NowLiteral, sign, 1)

(***************************************************************************)
(* Inputs                                                                  *)
(***************************************************************************)
\* The year the test suite sets the clock to.
BaseYear == 2020
\* Targets lie in the years BaseYear - 1 .. BaseYear - 1 + MaxYears.
MaxYears == 2
\* An expression is 'now' followed by at most MaxPieces pieces.
MaxPieces == 2

\* Clock readings: the test suite's, a leap day's last millisecond, a year
\* boundary, a Sunday midnight and a month end.
Clocks ==
    { DateUTC(BaseYear, 5, 12, 13, 20, 17, 486),
      DateUTC(BaseYear, 1, 29, 23, 59, 59, 999),
      DateUTC(BaseYear, 0, 1, 0, 0, 0, 0),
      DateUTC(BaseYear, 5, 14, 0, 0, 0, 0),
      DateUTC(BaseYear + 1, 2, 31, 8, 0, 0, 0) }

TargetYears == (BaseYear - 1)..(BaseYear - 1 + MaxYears)
TargetMonths == {0, 1, 5}
TargetDates == {1, 7, 12, 14, 28}
TargetTimes ==
    { <<0, 0, 0, 0>>, <<13, 0, 0, 0>>, <<13, 20, 0, 0>>,
      <<13, 20, 17, 486>>, <<8, 13, 17, 486>> }

\* The dates of the test suite's sub-minute cases.
TestTargets ==
    { DateUTC(2020, 5, 11, 13, 20, 17, 486),
      DateUTC(2020, 5, 13, 13, 20, 17, 486),
      DateUTC(2020, 5, 8, 8, 13, 17, 486) }

\* Dates handed to stringify; two year boundaries more than nine years away
\* give a two-digit count.
Targets ==
    { DateUTC(y, m, d, t[1], t[2], t[3], t[4]) :
        y \in TargetYears, m \in TargetMonths, d \in TargetDates, t \in TargetTimes }
    \cup TestTargets
    \cup { DateUTC(BaseYear - 12, 0, 1, 0, 0, 0, 0),
           DateUTC(BaseYear + 12, 0, 1, 0, 0, 0, 0) }

\* Pieces of expressions: adjustments, roundings, an unsigned token, a
\* rounding with a number, and characters of no token.
Pieces ==
    { <<"-", "4", "d">>, <<"/", "h">>, <<"+", "1", "3", "m">>, <<"/", "d">>,
      <<"/", "w">>, <<"/", "M">>, <<"/", "y">>, <<"/", "m">>, <<"/", "s">>,
      <<"+", "0", "d">>, <<"-", "0", "0", "h">>, <<"+", "1", "M">>, <<"-", "1", "y">>,
      <<"+", "2", "w">>, <<"-", "3", "0", "s">>,
      <<"3", "h">>, <<"/", "3", "h">>, <<"x">>, <<"+">> }

RECURSIVE PieceStrings(_)
PieceStrings(n) ==
    IF n = 0 THEN {<<>>}
    ELSE LET shorter == PieceStrings(n - 1)
         IN shorter \cup {s \o p : s \in shorter, p \in Pieces}

\* The expressions of the test suite that need more than two pieces.
TestExpressions ==
    { <<"n", "o", "w", "-", "4", "d", "-", "4", "h", "+", "1", "3", "m", "/", "d">>,
      <<"n", "o", "w", "-", "4", "d", "/", "h", "-", "4", "h", "+", "1", "3", "m", "/", "h">>,
      <<"n", "o", "w", "-", "4", "d", "/", "3", "h">>,
      <<"i", "n", "v", "a", "l", "i", "d", "-", "d", "a", "t", "e", "-", "s", "t", "r",
        "i", "n", "g">> }

\* Strings that do not start with 'now'.
NoPrefixExpressions ==
    { <<>>, <<"n", "o">>, <<"N", "o", "w", "/", "d">>, <<"-", "4", "d">>,
      <<" ", "n", "o", "w">> }

Expressions ==
    {NowLiteral \o s : s \in PieceStrings(MaxPieces)}
    \cup TestExpressions \cup NoPrefixExpressions

(***************************************************************************)
(* The calls.  The program keeps no state between calls; the state is the  *)
(* clock, and what a caller has seen: what its stringify call and its      *)
(* parse call were given, read from the clock and gave back.  A caller     *)
(* makes one call, or parses the string stringify gave it, and is done.    *)
(***************************************************************************)
NoCall == [made |-> FALSE]

Init ==
    /\ now \in Clocks
    /\ strCall = NoCall
    /\ parseCall = NoCall

\* The clock moves (the suite's jest.setSystemTime), also between a
\* caller's stringify and its parse.
SetSystemTime(t) ==
    /\ ~parseCall.made
    /\ t # now
    /\ now' = t
    /\ UNCHANGED <<strCall, parseCall>>

\* stringify(date)
Stringify(date) ==
    /\ ~strCall.made /\ ~parseCall.made
    /\ strCall' = [made |-> TRUE, clock |-> now, date |-> date,
                   result |-> stringify(now, date)]
    /\ UNCHANGED <<now, parseCall>>

\* parse(datestring) on an expression of the caller's
Parse(datestring) ==
    /\ ~strCall.made /\ ~parseCall.made
    /\ parseCall' = [made |-> TRUE, clock |-> now, datestring |-> datestring,
                     result |-> parse(now, datestring)]
    /\ UNCHANGED <<now, strCall>>

\* parse(stringify(date)): the string the caller's stringify call returned
ParseStringified ==
    /\ strCall.made /\ ~parseCall.made
    /\ parseCall' = [made |-> TRUE, clock |-> now, datestring |-> strCall.result,
                     result |-> parse(now, strCall.result)]
    /\ UNCHANGED <<now, strCall>>

\* The caller is done; the next one starts.
Done ==
    /\ strCall.made \/ parseCall.made
    /\ strCall' = NoCall
    /\ parseCall' = NoCall
    /\ UNCHANGED now

Next ==
    \/ \E t \in Clocks : SetSystemTime(t)
    \/ \E date \in Targets : Stringify(date)
    \/ \E datestring \in Expressions : Parse(datestring)
    \/ ParseStringified
    \/ Done

Spec == Init /\ [][Next]_vars

(***************************************************************************)
(* Properties                                                              *)
(***************************************************************************)
TestClock == DateUTC(BaseYear, 5, 12, 13, 20, 17, 486)
LeapDayClock == DateUTC(BaseYear, 1, 29, 23, 59, 59, 999)

\* The tokens parse extracts from an expression that starts with 'now'.
TokensOf(datestring) == MatchAll(sliceFrom(datestring, 3), 1)

AllSigned(tokens) ==
    \A i \in 1..Len(tokens) : tokens[i][1] \in {"+", "-", "/"}

IsRounding(token) == token[1] = "/"

\* The caller parsed the string its stringify call returned, and both calls
\* read the same clock.
RoundTripMade ==
    /\ strCall.made
    /\ parseCall.made
    /\ parseCall.clock = strCall.clock

\* C1: for a target aligned to a year, month, week, day, hour or minute
\* boundary (each of them has zero seconds and milliseconds),
\* parse(stringify(target)) is the target when both calls read the same clock.
RoundTripAtAlignedPrecisions ==
    (RoundTripMade /\ MinutePrecision(strCall.date))
        => parseCall.result = Returned(strCall.date)

\* The operation of one token, on a date.
OperationOn(date, token) ==
    IF IsRounding(token) THEN applyRounding(date, token[Len(token)])
    ELSE applyAdjustment(date, token[1], OperationValue(token), token[Len(token)])

\* The date after the first n operations, each on the result of the ones
\* before it.
RECURSIVE AfterOperations(_, _, _)
AfterOperations(clock, tokens, n) ==
    IF n = 0 THEN clock
    ELSE OperationOn(AfterOperations(clock, tokens, n - 1), tokens[n])

TestExpressionRoundHourTwice ==
    <<"n", "o", "w", "-", "4", "d", "/", "h", "-", "4", "h", "+", "1", "3", "m", "/", "h">>

\* C2: for an expression that starts with 'now' and whose tokens all begin with
\* '+', '-' or '/', parse returns the clock reading with the tokens' operations
\* applied one at a time from left to right, each on the running result; the
\* test suite's now-4d/h-4h+13m/h gives 2020-06-08T09:00:00.000Z.
ParseAppliesOperationsInOrder ==
    /\ (/\ parseCall.made
        /\ startsWith(parseCall.datestring, NowLiteral)
        /\ AllSigned(TokensOf(parseCall.datestring)))
        => LET tokens == TokensOf(parseCall.datestring)
           IN parseCall.result
                = Returned(AfterOperations(parseCall.clock, tokens, Len(tokens)))
    /\ (/\ parseCall.made
        /\ parseCall.clock = TestClock
        /\ parseCall.datestring = TestExpressionRoundHourTwice)
        => parseCall.result = Returned(DateUTC(2020, 5, 8, 9, 0, 0, 0))

ParseAppliesOperationsInOrderWitness ==
    /\ parseCall.made
    /\ parseCall.clock = TestClock
    /\ parseCall.datestring = TestExpressionRoundHourTwice
    /\ parseCall.result.kind = "return"

\* The indices of the tokens that begin with something else than '+', '-', '/'.
UnsignedTokens(tokens) ==
    {i \in 1..Len(tokens) : tokens[i][1] \notin {"+", "-", "/"}}

Minimum(S) == CHOOSE x \in S : \A y \in S : x <= y

\* C3: parse throws exactly when the expression does not start with 'now' or
\* some extracted token begins with another character than '+', '-', '/'; in
\* the second case the message is "Invalid sign in operation '<token>'" with
\* the first such token; characters of no token never make it throw, and a
\* call that throws returns no instant.
ParseThrowsExactlyOnBadInput ==
    parseCall.made =>
        IF ~startsWith(parseCall.datestring, NowLiteral)
        THEN /\ parseCall.result.kind = "throw"
             /\ "value" \notin DOMAIN parseCall.result
        ELSE LET tokens == TokensOf(parseCall.datestring)
                 bad == UnsignedTokens(tokens)
             IN IF bad # {}
                THEN /\ parseCall.result.kind = "throw"
                     /\ "value" \notin DOMAIN parseCall.result
                     /\ parseCall.result.message =
                          <<"I", "n", "v", "a", "l", "i", "d", " ", "s", "i", "g", "n",
                            " ", "i", "n", " ", "o", "p", "e", "r", "a", "t", "i", "o",
                            "n", " ", "'">> \o tokens[Minimum(bad)] \o <<"'">>
                ELSE parseCall.result.kind = "return"

ParseThrowsExactlyOnBadInputWitness ==
    /\ parseCall.made
    /\ parseCall.datestring = <<"n", "o", "w", "-", "4", "d", "/", "3", "h">>
    /\ parseCall.result.kind = "throw"

\* C4: for a week-aligned target that is neither year- nor month-aligned,
\* stringify returns 'now/w' when the whole-day difference D between the target
\* and the clock's calendar date is 0, and otherwise 'now', one sign character
\* ('+' if D > 0, '-' if D < 0), |D| in decimal and 'd/w'.
WeekPrecisionString ==
    (strCall.made /\ WeekPrecision(strCall.date) /\ ~MonthPrecision(strCall.date))
        => LET D == strCall.date.day - strCall.clock.day
           IN strCall.result =
                IF D = 0 THEN <<"n", "o", "w", "/", "w">>
                ELSE <<"n", "o", "w">> \o (IF D > 0 THEN <<"+">> ELSE <<"-">>)
                     \o NumberToString(Abs(D)) \o <<"d", "/", "w">>

\* |a - b| as whole days and the milliseconds left over.
AbsoluteDifference(a, b) ==
    LET aLater == a.day > b.day \/ (a.day = b.day /\ a.ms >= b.ms)
        hi == IF aLater THEN a ELSE b
        lo == IF aLater THEN b ELSE a
    IN IF hi.ms >= lo.ms THEN [days |-> hi.day - lo.day, ms |-> hi.ms - lo.ms]
       ELSE [days |-> hi.day - lo.day - 1, ms |-> hi.ms + msInDay - lo.ms]

Term(sign, value, label) ==
    IF value > 0 THEN <<sign>> \o NumberToString(value) \o <<label>> ELSE <<>>

\* C5: for a target with non-zero seconds or milliseconds stringify returns
\* 'now' and the greedy decomposition of |target - clock| over y (365 days),
\* M (30 days), w (7 days), d, h, m, s: a term for each unit whose value is
\* greater than zero, all with the one sign ('+' if target >= clock).
SubMinuteStringIsGreedyDecomposition ==
    (strCall.made /\ ~MinutePrecision(strCall.date))
        => LET diff == AbsoluteDifference(strCall.date, strCall.clock)
               sign == IF strCall.date.day > strCall.clock.day
                          \/ (strCall.date.day = strCall.clock.day
                              /\ strCall.date.ms >= strCall.clock.ms)
                       THEN "+" ELSE "-"
               y == diff.days \div 365
               afterY == diff.days % 365
               M == afterY \div 30
               afterM == afterY % 30
               w == afterM \div 7
               d == afterM % 7
               h == diff.ms \div 3600000
               m == (diff.ms % 3600000) \div 60000
               sec == (diff.ms % 60000) \div 1000
           IN strCall.result =
                <<"n", "o", "w">> \o Term(sign, y, "y") \o Term(sign, M, "M")
                \o Term(sign, w, "w") \o Term(sign, d, "d") \o Term(sign, h, "h")
                \o Term(sign, m, "m") \o Term(sign, sec, "s")

SubMinuteStringWitness ==
    /\ strCall.made
    /\ strCall.clock = TestClock
    /\ ~MinutePrecision(strCall.date)
    /\ strCall.result =
         <<"n", "o", "w", "-", "4", "d", "-", "5", "h", "-", "7", "m">>

\* C6: the string stringify returns starts with 'now', none of the tokens
\* parse extracts from it begins with a digit, and parsing it does not throw.
StringifiedIsParseable ==
    strCall.made =>
        /\ startsWith(strCall.result, NowLiteral)
        /\ \A i \in 1..Len(TokensOf(strCall.result)) :
              TokensOf(strCall.result)[i][1] \notin Digits
        /\ parseCall.made => parseCall.result.kind = "return"

StringifiedIsParseableWitness ==
    /\ strCall.made
    /\ parseCall.made
    /\ strCall.result = <<"n", "o", "w", "-", "-", "1", "2", "d", "/", "w">>
    /\ parseCall.result.kind = "return"

AdjustDayThenRoundHour == <<"n", "o", "w", "-", "4", "d", "/", "h">>
RoundHourThenAdjustDay == <<"n", "o", "w", "/", "h", "-", "4", "d">>
AdjustMinuteThenRoundHour == <<"n", "o", "w", "+", "1", "3", "m", "/", "h">>
RoundHourThenAdjustMinute == <<"n", "o", "w", "/", "h", "+", "1", "3", "m">>

\* C7 as stated: for some clock reading, the current one or any other,
\* parse("now-4d/h") and parse("now/h-4d") are different instants.
OrderSensitiveOnDayAndHour ==
    \E clock \in {now} \cup Clocks \cup Targets :
        parse(clock, AdjustDayThenRoundHour) # parse(clock, RoundHourThenAdjustDay)

\* C7 amended: parse("now-4d/h") and parse("now/h-4d") are the same instant
\* for every clock reading; the order shows when the adjustment is not a
\* multiple of the rounding unit: parse("now+13m/h") and parse("now/h+13m")
\* differ for every clock reading.
OrderMattersOnlyBelowRoundingUnit ==
    /\ (parseCall.made /\ parseCall.datestring = AdjustDayThenRoundHour)
        => parseCall.result = parse(parseCall.clock, RoundHourThenAdjustDay)
    /\ (parseCall.made /\ parseCall.datestring = AdjustMinuteThenRoundHour)
        => parseCall.result # parse(parseCall.clock, RoundHourThenAdjustMinute)

OrderMattersWitness ==
    /\ parseCall.made
    /\ parseCall.datestring = AdjustDayThenRoundHour
    /\ parseCall.result.kind = "return"
    /\ ~HourPrecision(parseCall.clock)

\* C8: rounding twice to a unit is rounding once: for the clock reading and
\* for every instant parse returns, and for every unit; and an expression that
\* ends in a rounding, with that rounding written once more, parses to the
\* same instant.
RoundingIsIdempotent ==
    /\ \A u \in UnitCodes :
          applyRounding(applyRounding(now, u), u) = applyRounding(now, u)
    /\ (parseCall.made /\ parseCall.result.kind = "return")
        => /\ \A u \in UnitCodes :
                applyRounding(applyRounding(parseCall.result.value, u), u)
                  = applyRounding(parseCall.result.value, u)
           /\ LET tokens == TokensOf(parseCall.datestring)
              IN (tokens # <<>> /\ IsRounding(tokens[Len(tokens)]))
                    => parse(parseCall.clock,
                             parseCall.datestring \o tokens[Len(tokens)])
                         = parseCall.result

RoundingIsIdempotentWitness ==
    /\ parseCall.made
    /\ parseCall.result.kind = "return"
    /\ parseCall.datestring = <<"n", "o", "w", "+", "1", "M", "/", "M">>
    /\ getUTCDate(parseCall.clock) # 1

\* C9: the magnitude of an adjustment token is the decimal number its digits
\* denote: an expression of one token '+' or '-', digits D and a unit adjusts
\* the clock reading by D units, so by nothing when D is zero.
AdjustMagnitudeIsDecimalValue ==
    (/\ parseCall.made
     /\ startsWith(parseCall.datestring, NowLiteral)
     /\ Len(TokensOf(parseCall.datestring)) = 1
     /\ TokensOf(parseCall.datestring)[1][1] \in {"+", "-"})
        => LET token == TokensOf(parseCall.datestring)[1]
               D == SubSeq(token, 2, Len(token) - 1)
           IN parseCall.result =
                Returned(applyAdjustment(parseCall.clock, token[1],
                                         DecimalValue(D, Len(D)), token[Len(token)]))

\* C10: for a year-aligned target stringify returns 'now/y' when the target's
\* year is the clock's year and otherwise 'now', the sign of the year
\* difference, its magnitude and 'y/y'; parsing that string with the same
\* clock reading returns the target.
YearPrecisionRoundTrip ==
    (strCall.made /\ YearPrecision(strCall.date))
        => LET years == Civil(strCall.date.day).year - Civil(strCall.clock.day).year
           IN /\ strCall.result =
                   IF years = 0 THEN <<"n", "o", "w", "/", "y">>
                   ELSE <<"n", "o", "w">> \o (IF years > 0 THEN <<"+">> ELSE <<"-">>)
                        \o NumberToString(Abs(years)) \o <<"y", "/", "y">>
              /\ RoundTripMade => parseCall.result = Returned(strCall.date)

YearPrecisionRoundTripWitness ==
    /\ RoundTripMade
    /\ YearPrecision(strCall.date)
    /\ strCall.clock = LeapDayClock
    /\ strCall.result = <<"n", "o", "w", "-", "1", "y", "/", "y">>
    /\ parseCall.result.kind = "return"

====
